---- MODULE Spec2Model ----
(***************************************************************************)
(* Model of the arm-pose-dynamics core.                                    *)
(*                                                                         *)
(*  - depth_cam::filter_background / img_BFS / mask_by_cluster_id          *)
(*    (src/depthCamManager.cpp): background removal by depth-gated region  *)
(*    growing over the depth grid cur_src.                                 *)
(*  - arm (src/tracker.h): the per-limb step counters and update_joints.   *)
(*    Only the declaration of update_joints and the field initialisers are *)
(*    in the source; the body of update_joints follows the documented      *)
(*    contract.                                                            *)
(*                                                                         *)
(* A grid is a function g[row][col], as cv::Mat::ptr<T>(row)[col].         *)
(* Depth samples are uint16_t; all values used here stay far below 2^16    *)
(* and the subtraction at line 173 is done in int, so no width matters.    *)
(* The float product abs(diff)*scale and the float maxDist are modelled    *)
(* with exact integers: scale is a positive number of distance units per   *)
(* depth unit, maxDist a number of the same distance units.                *)
(***************************************************************************)
EXTENDS Integers, Sequences, FiniteSets, TLC

\* ---- bounds of the model ----
\* frames are Rows x Cols: two rows, Cols columns
Cols == 2
\* update_joints is called at most MaxSteps times
MaxSteps == 9

\* the frames and arguments the segmenter is run on
RowIdx == {0, 1}
Rows == Cardinality(RowIdx)
ColIdx == 0..(Cols - 1)
Depths == {0, 1, 2, 3}
Manhattans == {1, 2}
Scales == {1, 2}
MaxDists == {1, 2}

VARIABLES
    \* depth_cam
    cur_src,            \* the current depth frame (input, then output)
    scale,              \* dev->get_depth_scale()
    maxDist, manhattan, \* arguments of filter_background
    pc,                 \* position: "idle", "scan", "bfs", "ret", "done"
    subject_mask,       \* working copy, zeroed as pixels are claimed
    clustered,          \* cluster id per pixel (CV_32SC1, zeros at start)
    largest_ind, largest_ind_area, current_ind,
    scan_i, scan_j,     \* the loop counters i, j of filter_background
    x, y, centerDepth, cluster_area, neighbors,   \* locals of img_BFS
    \* history of the segmentation (not program state)
    run,                \* number of filter_background calls started
    hist_in,            \* the frame at the start of each call
    pushes,             \* per pixel, times pushed onto a frontier this call
    pass_ids,           \* cluster_id argument of each img_BFS call this call
    areas,              \* value returned by each img_BFS call this call
    last_claims,        \* pixels claimed by the latest img_BFS iteration
    \* arm
    tracking_step, last_tracked_step,
    hand_loc, elbow_loc, shoulder_loc,
    ret,                \* value returned by the latest update_joints
    \* history of the arm (not program state)
    calls,              \* number of update_joints calls
    misses,             \* consecutive failed chain updates
    ever_ok,            \* some chain update has succeeded
    last_ok,            \* outcome of the latest chain update
    was_lost            \* the arm was lost when the latest call began

segvars == <<cur_src, scale, maxDist, manhattan, pc, subject_mask, clustered,
             largest_ind, largest_ind_area, current_ind, scan_i, scan_j,
             x, y, centerDepth, cluster_area, neighbors,
             run, hist_in, pushes, pass_ids, areas, last_claims>>

armvars == <<tracking_step, last_tracked_step, hand_loc, elbow_loc,
             shoulder_loc, ret, calls, misses, ever_ok, last_ok, was_lost>>

vars == <<segvars, armvars>>

\* ---- helpers ----
Abs(a) == IF a < 0 THEN -a ELSE a
Max(a, b) == IF a > b THEN a ELSE b
Min(a, b) == IF a < b THEN a ELSE b
Range(s) == {s[k] : k \in 1..Len(s)}

Grids == [RowIdx -> [ColIdx -> Depths]]
ZeroGrid == [r \in RowIdx |-> [c \in ColIdx |-> 0]]

\* ------------------------------------------------------------------------
\* depth_cam::img_BFS
\* ------------------------------------------------------------------------

\* line 164: the horizontal manhattan limit of window row y_ind
dxLimSquare(y_ind, yc, m) == -m
dxLim(y_ind, yc, m) == Abs(y_ind - yc) - m

\* lines 167-169: the columns of window row y_ind, as <<x_ind, y_ind>>
WindowRow(y_ind, xc, yc, m) ==
    LET lo == Max(dxLim(y_ind, yc, m) + xc, 0)
        hi == Min(-dxLim(y_ind, yc, m) + xc, Cols - 1)
    IN  [k \in 1..(hi - lo + 1) |-> <<lo + k - 1, y_ind>>]

\* lines 156-158: the window rows from y_ind on, in scan order
RECURSIVE WindowFrom(_, _, _, _)
WindowFrom(y_ind, xc, yc, m) ==
    IF y_ind > Min(m + yc, Rows - 1) THEN <<>>
    ELSE WindowRow(y_ind, xc, yc, m) \o WindowFrom(y_ind + 1, xc, yc, m)

Window(xc, yc, m) == WindowFrom(Max(-m + yc, 0), xc, yc, m)

\* line 173: "Skip any out-of-range pixels"
OutOfRangeSigned(d, cd, sc, md) == d = 0 \/ (cd - d) * sc > md
OutOfRange(d, cd, sc, md) == d = 0 \/ Abs(cd - d) * sc > md

\* lines 172-187 over the whole window. The pixels of a window are distinct
\* and claiming one changes no other, so the pixels claimed are those that
\* pass the test in the grid as it is when the window scan starts.
Claimed(img, xc, yc, cd, sc, md, m) ==
    SelectSeq(Window(xc, yc, m),
              LAMBDA q : ~OutOfRange(img[q[2]][q[1]], cd, sc, md))

\* one iteration of the while loop, lines 151-203
img_BFS_iter ==
    /\ pc = "bfs"
    /\ LET cl == Claimed(subject_mask, x, y, centerDepth, scale, maxDist, manhattan)
           cs == Range(cl)
           pushed == [k \in 1..Len(cl) |->
                        <<cl[k][1], cl[k][2], subject_mask[cl[k][2]][cl[k][1]]>>]
           nb == neighbors \o pushed
       IN  /\ cluster_area' = cluster_area + 1
           /\ subject_mask' = [r \in RowIdx |-> [c \in ColIdx |->
                  IF <<c, r>> \in cs THEN 0 ELSE subject_mask[r][c]]]
           /\ clustered' = [r \in RowIdx |-> [c \in ColIdx |->
                  IF <<c, r>> \in cs THEN current_ind ELSE clustered[r][c]]]
           /\ pushes' = [p \in DOMAIN pushes |->
                  IF p \in cs THEN pushes[p] + 1 ELSE pushes[p]]
           /\ last_claims' = {[px |-> cl[k], d |-> subject_mask[cl[k][2]][cl[k][1]],
                               at |-> <<x, y>>, by |-> centerDepth] :
                                   k \in 1..Len(cl)}
           /\ IF nb # <<>>
              THEN /\ x' = Head(nb)[1]
                   /\ y' = Head(nb)[2]
                   /\ centerDepth' = Head(nb)[3]
                   /\ neighbors' = Tail(nb)
                   /\ pc' = "bfs"
              ELSE /\ neighbors' = nb
                   /\ pc' = "ret"
                   /\ UNCHANGED <<x, y, centerDepth>>
    /\ UNCHANGED <<cur_src, scale, maxDist, manhattan, largest_ind,
                   largest_ind_area, current_ind, scan_i, scan_j,
                   run, hist_in, pass_ids, areas>>
    /\ UNCHANGED armvars

\* ------------------------------------------------------------------------
\* depth_cam::filter_background
\* ------------------------------------------------------------------------

\* line 105: no cluster is the largest yet
largest_ind_first == -1 + 1
largest_ind_init == -1

\* lines 104-116: the locals, the working copy and the zeroed cluster map
filter_background_begin ==
    /\ pc \in {"idle", "done"}
    /\ run < 2
    /\ run' = run + 1
    /\ hist_in' = Append(hist_in, cur_src)
    /\ largest_ind' = largest_ind_init
    /\ largest_ind_area' = 0
    /\ current_ind' = 0
    /\ subject_mask' = cur_src
    /\ clustered' = ZeroGrid
    /\ scan_i' = 0
    /\ scan_j' = 0
    /\ pushes' = [p \in ColIdx \X RowIdx |-> 0]
    /\ pass_ids' = <<>>
    /\ areas' = <<>>
    /\ last_claims' = {}
    /\ pc' = "scan"
    /\ UNCHANGED <<cur_src, scale, maxDist, manhattan, x, y, centerDepth,
                   cluster_area, neighbors>>
    /\ UNCHANGED armvars

\* line 123: "For each non-zero pixel"
IsSeed(v) == v # 0

\* j++ of line 121, then i++ of line 118 at the end of a row
NextI(i, j) == IF j + 1 = Cols THEN i + 1 ELSE i
NextJ(i, j) == IF j + 1 = Cols THEN 0 ELSE j + 1

\* lines 118-123: the loops run on over zero pixels, which change nothing,
\* to the next non-zero pixel <<i, j>>, or to i = Rows when none is left
RECURSIVE FindSeed(_, _, _)
FindSeed(img, i, j) ==
    IF i >= Rows THEN <<Rows, 0>>
    ELSE IF IsSeed(img[i][j]) THEN <<i, j>>
    ELSE FindSeed(img, NextI(i, j), NextJ(i, j))

\* line 125 and lines 144-149: the call of img_BFS(j, i, current_ind, ...)
\* on the next non-zero pixel
scan_seed ==
    /\ pc = "scan"
    /\ LET s == FindSeed(subject_mask, scan_i, scan_j)
       IN  /\ s[1] < Rows
           /\ scan_i' = s[1]
           /\ scan_j' = s[2]
           /\ x' = s[2]
           /\ y' = s[1]
           /\ centerDepth' = subject_mask[s[1]][s[2]]
    /\ cluster_area' = 1
    /\ neighbors' = <<>>
    /\ pass_ids' = Append(pass_ids, current_ind)
    /\ last_claims' = {}
    /\ pc' = "bfs"
    /\ UNCHANGED <<cur_src, scale, maxDist, manhattan, subject_mask, clustered,
                   largest_ind, largest_ind_area, current_ind,
                   run, hist_in, pushes, areas>>
    /\ UNCHANGED armvars

\* line 128: "Is the new cluster bigger"
IsBiggerOrEqual(a, b) == a >= b
IsBigger(a, b) == a > b

\* line 133
NextIndSame(c) == c
NextInd(c) == c + 1

\* line 205 and lines 125-133: img_BFS returns cluster_area
record_cluster ==
    /\ pc = "ret"
    /\ areas' = Append(areas, cluster_area)
    /\ IF IsBigger(cluster_area, largest_ind_area)
       THEN /\ largest_ind_area' = cluster_area
            /\ largest_ind' = current_ind
       ELSE UNCHANGED <<largest_ind, largest_ind_area>>
    /\ current_ind' = NextInd(current_ind)
    /\ scan_i' = NextI(scan_i, scan_j)
    /\ scan_j' = NextJ(scan_i, scan_j)
    /\ pc' = "scan"
    /\ UNCHANGED <<cur_src, scale, maxDist, manhattan, subject_mask, clustered,
                   x, y, centerDepth, cluster_area, neighbors,
                   run, hist_in, pushes, pass_ids, last_claims>>
    /\ UNCHANGED armvars

\* ------------------------------------------------------------------------
\* depth_cam::mask_by_cluster_id
\* ------------------------------------------------------------------------

\* line 220: "Zero all values except those in the target cluster".
\* (The function is declared int and returns nothing; its caller at line 139
\* discards the value.)
mask_by_cluster_id_inverted(cluster_img, cluster_id, output_img) ==
    [r \in RowIdx |-> [c \in ColIdx |->
        IF cluster_img[r][c] # cluster_id THEN output_img[r][c] ELSE 0]]
mask_by_cluster_id(cluster_img, cluster_id, output_img) ==
    [r \in RowIdx |-> [c \in ColIdx |->
        IF cluster_img[r][c] = cluster_id THEN output_img[r][c] ELSE 0]]

\* lines 118-123 to the end of the frame, and line 139
filter_background_end ==
    /\ pc = "scan"
    /\ FindSeed(subject_mask, scan_i, scan_j)[1] = Rows
    /\ scan_i' = Rows
    /\ scan_j' = 0
    /\ cur_src' = mask_by_cluster_id(clustered, largest_ind, cur_src)
    /\ pc' = "done"
    /\ UNCHANGED <<scale, maxDist, manhattan, subject_mask, clustered,
                   largest_ind, largest_ind_area, current_ind,
                   x, y, centerDepth, cluster_area, neighbors,
                   run, hist_in, pushes, pass_ids, areas, last_claims>>
    /\ UNCHANGED armvars

\* ------------------------------------------------------------------------
\* arm
\* ------------------------------------------------------------------------

\* tracker.h:128-130, the default member initialisers
max_missed_steps_short == 5 - 1
max_missed_steps == 5
tracking_step_init == 0
last_tracked_step_off == -max_missed_steps
last_tracked_step_init == -max_missed_steps - 1

\* tracker.h:101: current = current + (target-current)*t
lerp(target, current, t) == current + (target - current) * t

\* the lost condition of the tracking state
Lost == tracking_step - last_tracked_step > max_missed_steps

\* the step recorded as last tracked by a call whose chain update was ok / not
TrackedAlways(ok, step, last) == step
Tracked(ok, step, last) == IF ok THEN step ELSE last

\* arm::update_joints(smoothing_factor). ok is the outcome of
\* update_arm_list this frame, the targets are the raw joint positions the
\* chain gives, t the smoothing factor (0 or 1, where lerp is exact).
update_joints(ok, th, te, ts, t) ==
    /\ tracking_step < MaxSteps
    /\ tracking_step' = tracking_step + 1
    /\ last_tracked_step' = Tracked(ok, tracking_step + 1, last_tracked_step)
    /\ IF ok
       THEN /\ hand_loc' = lerp(th, hand_loc, t)
            /\ elbow_loc' = lerp(te, elbow_loc, t)
            /\ shoulder_loc' = lerp(ts, shoulder_loc, t)
       ELSE UNCHANGED <<hand_loc, elbow_loc, shoulder_loc>>
    /\ ret' = (tracking_step' - last_tracked_step' <= max_missed_steps)
    /\ calls' = calls + 1
    /\ misses' = IF ok THEN 0 ELSE misses + 1
    /\ ever_ok' = (ever_ok \/ ok)
    /\ last_ok' = ok
    /\ was_lost' = Lost
    /\ UNCHANGED segvars

update_joints_ok ==
    \E th \in 0..1, te \in 0..1, ts \in 0..1, t \in 0..1 :
        update_joints(TRUE, th, te, ts, t)

update_joints_failed == update_joints(FALSE, 0, 0, 0, 0)

\* ------------------------------------------------------------------------
\* specifications
\* ------------------------------------------------------------------------

ArmInit ==
    /\ tracking_step = tracking_step_init
    /\ last_tracked_step = last_tracked_step_init
    /\ hand_loc = 0
    /\ elbow_loc = 0
    /\ shoulder_loc = 0
    /\ ret = FALSE
    /\ calls = 0
    /\ misses = 0
    /\ ever_ok = FALSE
    /\ last_ok = FALSE
    /\ was_lost = FALSE

SegInit(g, sc, md, m) ==
    /\ cur_src = g
    /\ scale = sc
    /\ maxDist = md
    /\ manhattan = m
    /\ pc = "idle"
    /\ subject_mask = ZeroGrid
    /\ clustered = ZeroGrid
    /\ largest_ind = largest_ind_init
    /\ largest_ind_area = 0
    /\ current_ind = 0
    /\ scan_i = 0
    /\ scan_j = 0
    /\ x = 0
    /\ y = 0
    /\ centerDepth = 0
    /\ cluster_area = 0
    /\ neighbors = <<>>
    /\ run = 0
    /\ hist_in = <<>>
    /\ pushes = [p \in ColIdx \X RowIdx |-> 0]
    /\ pass_ids = <<>>
    /\ areas = <<>>
    /\ last_claims = {}

\* the segmenter on every bounded frame and parameter choice
Init ==
    /\ \E g \in Grids, sc \in Scales, md \in MaxDists, m \in Manhattans :
          SegInit(g, sc, md, m)
    /\ ArmInit

Next ==
    \/ filter_background_begin
    \/ scan_seed
    \/ img_BFS_iter
    \/ record_cluster
    \/ filter_background_end

Spec == Init /\ [][Next]_vars

\* the arm alone, the camera idle
ArmSpecInit ==
    /\ SegInit(ZeroGrid, 1, 1, 1)
    /\ ArmInit

ArmNext ==
    \/ update_joints_ok
    \/ update_joints_failed

ArmSpec == ArmSpecInit /\ [][ArmNext]_vars

\* ------------------------------------------------------------------------
\* properties of the segmenter
\* ------------------------------------------------------------------------

Pix == ColIdx \X RowIdx
At(g, p) == g[p[2]][p[1]]
NonZero(g) == {p \in Pix : At(g, p) # 0}
in_grid == hist_in[run]
Finished == pc = "done"

RECURSIVE SumSeq(_)
SumSeq(s) == IF s = <<>> THEN 0 ELSE Head(s) + SumSeq(Tail(s))

\* the non-zero input pixels the cluster map gives to cluster id
ClusterPixels(id) == {p \in NonZero(in_grid) : At(clustered, p) = id}

\* the segmenter's adjacency, stated on the input frame
Manhattan(p, q) == Abs(p[1] - q[1]) + Abs(p[2] - q[2])
Adjacent(g, p, q) ==
    /\ At(g, p) # 0
    /\ At(g, q) # 0
    /\ Manhattan(p, q) <= manhattan
    /\ Abs(At(g, p) - At(g, q)) * scale <= maxDist

RECURSIVE Grow(_, _)
Grow(g, S) ==
    LET T == S \cup {q \in Pix : \E p \in S : Adjacent(g, p, q)}
    IN  IF T = S THEN S ELSE Grow(g, T)

Components(g) == {Grow(g, {p}) : p \in NonZero(g)}
IsLargest(g, comp) == \A other \in Components(g) :
                          Cardinality(other) <= Cardinality(comp)
RowMajor(p) == p[2] * Cols + p[1]
SeedOf(comp) == CHOOSE p \in comp : \A q \in comp : RowMajor(p) <= RowMajor(q)

\* C1: the area img_BFS returns for a cluster is the number of pixels that
\* pass claimed, and the areas of one run sum to the number of non-zero
\* input pixels.
C1_AreaIsPixelCount ==
    /\ pc = "ret" => cluster_area = Cardinality(ClusterPixels(current_ind))
    /\ Finished => SumSeq(areas) = Cardinality(NonZero(in_grid))

\* C2: on a frame with a non-zero pixel the output is one connected
\* component of maximum pixel count, with its input depths, zero elsewhere.
C2_LargestRegionKept ==
    (Finished /\ NonZero(in_grid) # {}) =>
        \E comp \in Components(in_grid) :
            /\ IsLargest(in_grid, comp)
            /\ \A p \in Pix :
                   At(cur_src, p) = IF p \in comp THEN At(in_grid, p) ELSE 0

\* C2 happens: a frame of several components, the kept one of several
\* pixels, the other pixels removed.
C2_Witness ==
    /\ Finished
    /\ run = 1
    /\ Cardinality(Components(in_grid)) >= 2
    /\ Cardinality(NonZero(cur_src)) >= 2
    /\ NonZero(cur_src) # NonZero(in_grid)

\* C3: a second run on the first run's output, same arguments, returns it
\* unchanged.
C3_Idempotent == (Finished /\ run = 2) => cur_src = hist_in[2]

\* C3 happens: the first run removed something and left something.
C3_Witness ==
    /\ Finished
    /\ run = 2
    /\ hist_in[1] # hist_in[2]
    /\ NonZero(hist_in[2]) # {}
    /\ cur_src = hist_in[2]

\* C4 as stated: a pixel is claimed through the popped pixel only if its
\* scaled depth difference is strictly below maxDist.
C4_GateStrict ==
    \A c \in last_claims : Abs(c.by - c.d) * scale < maxDist

\* C4 amended: a pixel is claimed through the popped pixel only if it lies
\* in the popped pixel's diamond window, is non-zero in the working copy and
\* its scaled depth difference is at most maxDist.
C4_GateInclusive ==
    \A c \in last_claims :
        /\ Manhattan(c.px, c.at) <= manhattan
        /\ c.d # 0
        /\ Abs(c.by - c.d) * scale <= maxDist

\* C4 happens: a pixel is claimed with a scaled difference equal to maxDist.
C4_Witness ==
    \E c \in last_claims : c.px # c.at /\ Abs(c.by - c.d) * scale = maxDist

\* C5: among the clusters of maximum pixel count the one found first in
\* row-major order is kept, and it is the lowest id among them.
C5_FirstFoundWins ==
    (Finished /\ NonZero(in_grid) # {}) =>
        LET best == {c \in Components(in_grid) : IsLargest(in_grid, c)}
            first == CHOOSE c \in best : \A o \in best :
                         RowMajor(SeedOf(c)) <= RowMajor(SeedOf(o))
            ids == {id \in Range(pass_ids) : \A o \in Range(pass_ids) :
                       Cardinality(ClusterPixels(o)) <= Cardinality(ClusterPixels(id))}
        IN  /\ NonZero(cur_src) = first
            /\ largest_ind \in ids
            /\ \A id \in ids : largest_ind <= id

\* C5 happens: several clusters share the maximum.
C5_Witness ==
    /\ Finished
    /\ Cardinality({c \in Components(in_grid) : IsLargest(in_grid, c)}) >= 2
    /\ NonZero(cur_src) # {}

\* C6: on an all-zero frame no region-growing pass starts, no winning id is
\* chosen and the output is all zero.
C6_AllZeroFrame ==
    (run >= 1 /\ NonZero(in_grid) = {}) =>
        /\ pc \in {"scan", "done"}
        /\ pass_ids = <<>>
        /\ largest_ind = -1
        /\ Finished => cur_src = ZeroGrid

\* C6 happens: a run on an all-zero frame has finished.
C6_Witness == Finished /\ run = 1 /\ NonZero(in_grid) = {}

\* C9: the passes of a run partition the non-zero pixels: no pixel is pushed
\* twice, at the end every non-zero input pixel has been zeroed and pushed
\* once and belongs to a pass, no two passes share an id, and a pass returns
\* with an empty frontier.
C9_Partition ==
    /\ \A p \in Pix : pushes[p] <= 1
    /\ \A a \in 1..Len(pass_ids), b \in 1..Len(pass_ids) :
           a # b => pass_ids[a] # pass_ids[b]
    /\ pc = "ret" => neighbors = <<>>
    /\ Finished =>
           /\ \A p \in Pix : pushes[p] = IF At(in_grid, p) # 0 THEN 1 ELSE 0
           /\ subject_mask = ZeroGrid
           /\ \A p \in NonZero(in_grid) : At(clustered, p) \in Range(pass_ids)
           /\ \A id \in Range(pass_ids) : ClusterPixels(id) # {}

\* C9 happens: a run of several passes has finished.
C9_Witness == Finished /\ Len(pass_ids) >= 2

\* ------------------------------------------------------------------------
\* properties of the arm
\* ------------------------------------------------------------------------

C8_MissedStepBudget ==
    [][(ever_ok /\ calls' = calls + 1 /\ ~last_ok') =>
           /\ tracking_step' = tracking_step + 1
           /\ hand_loc' = hand_loc
           /\ elbow_loc' = elbow_loc
           /\ shoulder_loc' = shoulder_loc
           /\ ret' = (misses' <= 5)]_vars

\* C8 happens: the budget ran out after a success with moved joints.
C8_Witness ==
    /\ ever_ok
    /\ misses = 6
    /\ ~ret
    /\ hand_loc # 0

\* C10: a new arm has tracking_step 0 and last_tracked_step -6, and until
\* its first success last_tracked_step <= tracking_step and the lost
\* condition both hold.
C10_StartsLost ==
    /\ calls = 0 => (tracking_step = 0 /\ last_tracked_step = -6)
    /\ ~ever_ok => /\ last_tracked_step <= tracking_step
                   /\ tracking_step - last_tracked_step > 5

\* C10 happens: a new arm has failed twice and no update has succeeded.
C10_Witness == ~ever_ok /\ calls >= 2 /\ ~ret

====
